---------------------------- MODULE Spec2Model ----------------------------
(***************************************************************************)
(* State-machine model of the contact manager in src/hw_8_1.py: the Field  *)
(* types, Record, AddressBook, the command handlers wrapped by             *)
(* input_error, the pickle persistence and main's control loop.            *)
(*                                                                         *)
(* Python values are modelled as follows.  A str is a TLA+ string (its     *)
(* characters are read with SubSeq).  A list is a sequence.  A Field       *)
(* object (Name, Phone, Birthday) is a record [value |-> str].  A Record   *)
(* object is [name, phones, birthday], the birthday attribute being <<>>   *)
(* for None and <<b>> for a Birthday object b.  The AddressBook's dict is  *)
(* the sequence of its [key, rec] items in insertion order.  A call that   *)
(* may raise returns [exc |-> <<>>] on success and                         *)
(* [exc |-> <<kind, message>>] when the exception leaves the call.         *)
(***************************************************************************)
EXTENDS Integers, Sequences, FiniteSets, TLC

VARIABLES
    book,       \* the AddressBook (main's local `book`, the handlers' argument)
    out,        \* the string last returned by a handler / printed by main
    exc,        \* the exception that left the last direct Record method call
    op,         \* the last call made: its name and its arguments
    pre,        \* the AddressBook as it was when the last call started
    upcoming,   \* the list last returned by get_upcoming_birthdays
    today,      \* the date datetime.now().date() gave to that call
    pc,         \* main's position: "start" (not running), "loop"
    file,       \* addressbook.pkl: <<>> when missing, else <<blob>>
    ended       \* how the previous run of main ended: "none", "exit", "crash"

vars == <<book, out, exc, op, pre, upcoming, today, pc, file, ended>>

----------------------------------------------------------------------------
(* Bounds of the model.                                                    *)

\* Longest phone list a record is allowed to grow to.
MaxPhones == 2

\* First calendar year and number of years from which `today` is drawn.
BaseYear == 2023
YearSpan == 2

----------------------------------------------------------------------------
(* Python str helpers.                                                     *)

Char(s, i) == SubSeq(s, i, i)

DigitChars == {"0", "1", "2", "3", "4", "5", "6", "7", "8", "9"}

\* str.isdigit() on the ASCII inputs used here: non-empty and every
\* character a decimal digit.
isdigit(s) == Len(s) > 0 /\ \A i \in 1..Len(s) : Char(s, i) \in DigitChars

DigitVal(c) == CHOOSE v \in 0..9 : Char("0123456789", v + 1) = c

RECURSIVE int(_)
\* int(s) for a string of decimal digits.
int(s) ==
    IF Len(s) = 0 THEN 0
    ELSE 10 * int(SubSeq(s, 1, Len(s) - 1)) + DigitVal(Char(s, Len(s)))

DigitStr(v) == Char("0123456789", v + 1)

\* "%02d" and "%04d" formatting, as strftime's %d, %m and %Y produce.
Pad2(n) == DigitStr((n \div 10) % 10) \o DigitStr(n % 10)
Pad4(n) == Pad2(n \div 100) \o Pad2(n % 100)

RECURSIVE str_int(_)
\* str(n) of a non-negative int.
str_int(n) == IF n < 10 THEN DigitStr(n) ELSE str_int(n \div 10) \o DigitStr(n % 10)

UpperChars == "ABCDEFGHIJKLMNOPQRSTUVWXYZ"
LowerChars == "abcdefghijklmnopqrstuvwxyz"

LowerChar(c) ==
    IF \E i \in 1..26 : Char(UpperChars, i) = c
    THEN Char(LowerChars, CHOOSE i \in 1..26 : Char(UpperChars, i) = c)
    ELSE c

RECURSIVE lower(_)
\* str.lower()
lower(s) == IF Len(s) = 0 THEN "" ELSE LowerChar(Char(s, 1)) \o lower(SubSeq(s, 2, Len(s)))

IsSpace(c) == c \in {" ", "\t", "\n"}

RECURSIVE split_from(_, _, _)
\* str.split() with no separator: the maximal runs of non-whitespace
\* characters.  `cur` is the run being read.
split_from(s, i, cur) ==
    IF i > Len(s) THEN (IF cur = "" THEN <<>> ELSE <<cur>>)
    ELSE IF IsSpace(Char(s, i))
         THEN (IF cur = "" THEN <<>> ELSE <<cur>>) \o split_from(s, i + 1, "")
         ELSE split_from(s, i + 1, cur \o Char(s, i))

split(s) == split_from(s, 1, "")

RECURSIVE join(_, _)
\* sep.join(parts)
join(sep, parts) ==
    IF Len(parts) = 0 THEN ""
    ELSE IF Len(parts) = 1 THEN parts[1]
    ELSE parts[1] \o sep \o join(sep, Tail(parts))

Map(seq, F(_)) == [i \in 1..Len(seq) |-> F(seq[i])]

NoExc == <<>>
ValueError(msg) == <<"ValueError", msg>>

TypeError(msg) == <<"TypeError", msg>>
IndexError(msg) == <<"IndexError", msg>>
NameError(msg) == <<"NameError", msg>>

----------------------------------------------------------------------------
(* Calendar arithmetic of datetime.date, used by Birthday and by           *)
(* get_upcoming_birthdays.  A date is [year, month, day].                  *)

IsLeap(y) == y % 4 = 0 /\ (y % 100 # 0 \/ y % 400 = 0)

DaysInMonth(y, m) ==
    IF m = 2 THEN (IF IsLeap(y) THEN 29 ELSE 28)
    ELSE IF m \in {4, 6, 9, 11} THEN 30 ELSE 31

\* date(y, m, d) constructs: 1 <= y <= 9999, 1 <= m <= 12, 1 <= d <= dim.
ValidDate(y, m, d) ==
    /\ y \in 1..9999
    /\ m \in 1..12
    /\ d \in 1..DaysInMonth(y, m)

Date(y, m, d) == [year |-> y, month |-> m, day |-> d]

RECURSIVE DaysBeforeMonth(_, _)
DaysBeforeMonth(y, m) ==
    IF m = 1 THEN 0 ELSE DaysBeforeMonth(y, m - 1) + DaysInMonth(y, m - 1)

\* date.toordinal(): the day number, 01.01.0001 being day 1.
toordinal(dt) ==
    LET y1 == dt.year - 1
    IN  y1 * 365 + (y1 \div 4) - (y1 \div 100) + (y1 \div 400)
        + DaysBeforeMonth(dt.year, dt.month) + dt.day

\* date.__lt__
DateLess(a, b) == toordinal(a) < toordinal(b)

\* (a - b).days of two dates
DateDiffDays(a, b) == toordinal(a) - toordinal(b)

\* date.replace(year=y): raises ValueError when the day does not exist in
\* year y (29 February in a year that is no leap year).
replace_year(dt, y) ==
    IF ValidDate(y, dt.month, dt.day)
    THEN [exc |-> NoExc, date |-> Date(y, dt.month, dt.day)]
    ELSE [exc |-> ValueError("day is out of range for month"), date |-> dt]

\* date.strftime("%d.%m.%Y")
strftime(dt) == Pad2(dt.day) \o "." \o Pad2(dt.month) \o "." \o Pad4(dt.year)

RECURSIVE split_on(_, _, _, _)
\* The pieces of s between the occurrences of the character sep.
split_on(s, sep, i, cur) ==
    IF i > Len(s) THEN <<cur>>
    ELSE IF Char(s, i) = sep
         THEN <<cur>> \o split_on(s, sep, i + 1, "")
         ELSE split_on(s, sep, i + 1, cur \o Char(s, i))

\* strptime's %d: 3[0-1] | [1-2]\d | 0[1-9] | [1-9] | " "[1-9].
\* The value matched, 0 when the piece does not match.
DayDirective(p) ==
    IF Len(p) = 1 /\ isdigit(p) /\ p # "0" THEN int(p)
    ELSE IF Len(p) = 2 /\ Char(p, 1) = " " /\ isdigit(Char(p, 2)) /\ Char(p, 2) # "0"
         THEN int(Char(p, 2))
    ELSE IF Len(p) = 2 /\ isdigit(p) /\ int(p) \in 1..31 THEN int(p)
    ELSE 0

\* strptime's %m: 1[0-2] | 0[1-9] | [1-9].
MonthDirective(p) ==
    IF Len(p) \in {1, 2} /\ isdigit(p) /\ int(p) \in 1..12 THEN int(p) ELSE 0

\* strptime's %Y: exactly four digits; -1 when the piece does not match.
YearDirective(p) == IF Len(p) = 4 /\ isdigit(p) THEN int(p) ELSE -1

\* datetime.strptime(value, "%d.%m.%Y"): the whole string must match the
\* three directives separated by dots and name a date that exists.
strptime(value) ==
    LET parts == split_on(value, ".", 1, "")
        ok    == /\ Len(parts) = 3
                 /\ DayDirective(parts[1]) > 0
                 /\ MonthDirective(parts[2]) > 0
                 /\ YearDirective(parts[3]) >= 0
                 /\ ValidDate(YearDirective(parts[3]), MonthDirective(parts[2]),
                              DayDirective(parts[1]))
    IN  IF ok
        THEN [exc |-> NoExc,
              date |-> Date(YearDirective(parts[3]), MonthDirective(parts[2]),
                            DayDirective(parts[1]))]
        ELSE [exc |-> ValueError("time data does not match format"),
              date |-> Date(1, 1, 1)]

----------------------------------------------------------------------------
(* Field, Name, Phone, Birthday.                                           *)

\* Field.__init__: the object holds the value it was given.
Field(value) == [value |-> value]

\* Field.__str__
Field_str(f) == f.value

Name(value) == Field(value)

\* Phone.__init__
Phone(value) ==
    IF ~isdigit(value) \/ Len(value) # 10
    THEN [exc |-> ValueError("Phone number must contain 10 digits."), obj |-> Field("")]
    ELSE [exc |-> NoExc, obj |-> Field(value)]

\* Birthday.__init__
Birthday(value) ==
    IF strptime(value).exc # NoExc
    THEN [exc |-> ValueError("Invalid date format. Use DD.MM.YYYY"), obj |-> Field("")]
    ELSE [exc |-> NoExc, obj |-> Field(value)]

\* `s == f` for a str s and a Field object f.  Field and its subclasses
\* define __str__ only, no __eq__: str.__eq__ and object.__eq__ both answer
\* NotImplemented and the comparison falls back to identity, which is False.
str_eq_Field(s, f) == FALSE

\* `x in lst` / `x not in lst` for a str x and a list of Field objects.
list_contains(lst, x) == \E i \in 1..Len(lst) : str_eq_Field(x, lst[i])

\* lst.index(x): the first position (0-based in Python, 1-based here).
list_index(lst, x) ==
    CHOOSE i \in 1..Len(lst) :
        /\ str_eq_Field(x, lst[i])
        /\ \A j \in 1..(i - 1) : ~str_eq_Field(x, lst[j])

----------------------------------------------------------------------------
(* Record.                                                                 *)

\* Record.__init__
Record(name) == [name |-> Name(name), phones |-> <<>>, birthday |-> <<>>]

\* A variant of Record.add_phone that appends before validating.
add_phone_append_first(rec, phone) ==
    [exc |-> Phone(phone).exc,
     rec |-> [rec EXCEPT !.phones = Append(@, Field(phone))]]

\* Record.add_phone
add_phone(rec, phone) ==
    IF ~list_contains(rec.phones, phone)
    THEN LET p == Phone(phone)
         IN  IF p.exc # NoExc
             THEN [exc |-> p.exc, rec |-> rec]
             ELSE [exc |-> NoExc, rec |-> [rec EXCEPT !.phones = Append(@, p.obj)]]
    ELSE [exc |-> NoExc, rec |-> rec]

\* Record.remove_phone
remove_phone(rec, phone) ==
    LET Keep(p) == Field_str(p) # phone
    IN  [exc |-> NoExc, rec |-> [rec EXCEPT !.phones = SelectSeq(@, Keep)]]

\* A variant of Record.edit_phone that overwrites the first phone when the
\* old one is not found.
edit_phone_overwrite_first(rec, old_phone, new_phone) ==
    IF Len(rec.phones) > 0 /\ Phone(new_phone).exc = NoExc
    THEN [exc |-> NoExc, rec |-> [rec EXCEPT !.phones[1] = Phone(new_phone).obj]]
    ELSE [exc |-> NoExc, rec |-> rec]

\* Record.edit_phone
edit_phone(rec, old_phone, new_phone) ==
    IF list_contains(rec.phones, old_phone)
    THEN LET idx == list_index(rec.phones, old_phone)
             p   == Phone(new_phone)
         IN  IF p.exc # NoExc
             THEN [exc |-> p.exc, rec |-> rec]
             ELSE [exc |-> NoExc, rec |-> [rec EXCEPT !.phones[idx] = p.obj]]
    ELSE [exc |-> NoExc, rec |-> rec]

\* Record.add_birthday
Record_add_birthday(rec, birthday) ==
    LET b == Birthday(birthday)
    IN  IF b.exc # NoExc
        THEN [exc |-> b.exc, rec |-> rec]
        ELSE [exc |-> NoExc, rec |-> [rec EXCEPT !.birthday = <<b.obj>>]]

\* Record.__str__
Record_str(rec) ==
    LET phones_str   == join("; ", Map(rec.phones, Field_str))
        birthday_str == IF rec.birthday # <<>> THEN Field_str(rec.birthday[1])
                        ELSE "Not specified"
    IN  "Contact name: " \o Field_str(rec.name) \o ", phones: " \o phones_str
        \o ", birthday: " \o birthday_str

----------------------------------------------------------------------------
(* AddressBook(UserDict).                                                  *)

\* AddressBook(): an empty dict.
AddressBook == <<>>

\* `name in book` (UserDict.__contains__)
contains(bk, name) == \E i \in 1..Len(bk) : bk[i].key = name

\* Position of the item keyed by name; the key is known to be present.
KeyIndex(bk, name) == CHOOSE i \in 1..Len(bk) : bk[i].key = name

\* `book[name]` for a name that is present (UserDict.__getitem__)
getitem(bk, name) == bk[KeyIndex(bk, name)].rec

\* The dict after the object book[name] was mutated into rec.
setrec(bk, name, rec) == [bk EXCEPT ![KeyIndex(bk, name)].rec = rec]

\* AddressBook.add_record: self.data[record.name.value] = record.  A dict
\* keeps a key that is already present at its place and replaces its value.
add_record(bk, record) ==
    IF contains(bk, record.name.value)
    THEN setrec(bk, record.name.value, record)
    ELSE Append(bk, [key |-> record.name.value, rec |-> record])

\* AddressBook.find: self.data.get(name); <<>> stands for None.
find(bk, name) == IF contains(bk, name) THEN <<getitem(bk, name)>> ELSE <<>>

\* AddressBook.delete
delete(bk, name) ==
    LET Other(item) == item.key # name
    IN  IF contains(bk, name) THEN SelectSeq(bk, Other) ELSE bk

\* self.values(): the records in insertion order.
values(bk) == [i \in 1..Len(bk) |-> bk[i].rec]

\* A variant of the window test of get_upcoming_birthdays with a half-open
\* window (difference < 7 days).
in_window_strict(birthday_date, tdy) == DateDiffDays(birthday_date, tdy) < 7

\* The window test of get_upcoming_birthdays:
\* birthday_date - today <= timedelta(days=7).
in_window(birthday_date, tdy) == DateDiffDays(birthday_date, tdy) <= 7

\* The body of get_upcoming_birthdays's loop for one record: the pairs it
\* appends (none or one), or the exception date.replace raises.
upcoming_of(record, tdy) ==
    IF record.birthday = <<>> THEN [exc |-> NoExc, pairs |-> <<>>]
    ELSE
      LET parsed == strptime(record.birthday[1].value).date
          this   == replace_year(parsed, tdy.year)
      IN  IF this.exc # NoExc THEN [exc |-> this.exc, pairs |-> <<>>]
          ELSE
            LET next == IF DateLess(this.date, tdy)
                        THEN replace_year(this.date, tdy.year + 1)
                        ELSE this
            IN  IF next.exc # NoExc THEN [exc |-> next.exc, pairs |-> <<>>]
                ELSE IF in_window(next.date, tdy)
                     THEN [exc |-> NoExc,
                           pairs |-> << <<record.name.value, strftime(next.date)>> >>]
                     ELSE [exc |-> NoExc, pairs |-> <<>>]

RECURSIVE upcoming_loop(_, _, _)
\* The loop of get_upcoming_birthdays over the records from position i on,
\* acc being upcoming_birthdays so far; the first exception ends the call.
upcoming_loop(recs, tdy, acc) ==
    IF Len(recs) = 0 THEN [exc |-> NoExc, list |-> acc]
    ELSE LET r == upcoming_of(Head(recs), tdy)
         IN  IF r.exc # NoExc THEN [exc |-> r.exc, list |-> <<>>]
             ELSE upcoming_loop(Tail(recs), tdy, acc \o r.pairs)

\* AddressBook.get_upcoming_birthdays, tdy being datetime.now().date().
get_upcoming_birthdays(bk, tdy) == upcoming_loop(values(bk), tdy, <<>>)

----------------------------------------------------------------------------
(* input_error and the command handlers.  A handler's argument list holds  *)
(* Python values: PyStr(s) for a str, PyList(l) for a list.  The function  *)
(* a handler wraps returns [exc, ret, book]: the exception it raised or    *)
(* the string it returned, and the AddressBook as the call left it.        *)

PyStr(s) == [type |-> "str", v |-> s]
PyList(l) == [type |-> "list", v |-> l]

\* input_error's inner: the wrapped function's result, or the message for
\* the exception it raised.
input_error(r) ==
    [ret  |-> IF r.exc = NoExc THEN r.ret
              ELSE IF r.exc[1] = "ValueError" THEN r.exc[2]
              ELSE IF r.exc[1] = "KeyError" THEN "No such name found"
              ELSE "Error: " \o r.exc[2],
     book |-> r.book]

\* The ValueError of unpacking n values into `want` names.
UnpackError(want, n) ==
    IF n < want
    THEN ValueError("not enough values to unpack (expected " \o str_int(want)
                    \o ", got " \o str_int(n) \o ")")
    ELSE ValueError("too many values to unpack (expected " \o str_int(want) \o ")")

Raise(e, bk) == [exc |-> e, ret |-> "", book |-> bk]
Return(msg, bk) == [exc |-> NoExc, ret |-> msg, book |-> bk]

Unhashable == TypeError("unhashable type: 'list'")
NotAString == TypeError("expected string or bytes-like object, got 'list'")

\* PHONE_PATTERN.match(s) for ^\d{10}$: ten digits, and `$` also matches
\* just before a newline that ends the string.
PHONE_PATTERN_match(s) ==
    \/ Len(s) = 10 /\ isdigit(s)
    \/ Len(s) = 11 /\ isdigit(SubSeq(s, 1, 10)) /\ Char(s, 11) = "\n"

BadPhoneFormat == ValueError("Invalid phone number format. Please enter a 10-digit number.")

\* A variant of add_contact's function that replaces the record of a name
\* that is present by a new one.
add_contact_func_replace(args, bk) ==
    IF Len(args) # 2 THEN Raise(UnpackError(2, Len(args)), bk)
    ELSE LET name == args[1].v
             phone == args[2].v
             r == add_phone(Record(name), phone)
         IN  IF ~PHONE_PATTERN_match(phone) THEN Raise(BadPhoneFormat, bk)
             ELSE IF r.exc # NoExc THEN Raise(r.exc, bk)
             ELSE Return(IF contains(bk, name) THEN "Phone added." ELSE "Contact added.",
                         add_record(bk, r.rec))

\* A variant of add_contact's function that puts the new record in the book
\* before it adds the phone to it.
add_contact_func_record_first(args, bk) ==
    IF Len(args) # 2 THEN Raise(UnpackError(2, Len(args)), bk)
    ELSE LET name == args[1].v
             phone == args[2].v
             old == IF contains(bk, name) THEN getitem(bk, name) ELSE Record(name)
             r == add_phone(old, phone)
         IN  IF ~PHONE_PATTERN_match(phone) THEN Raise(BadPhoneFormat, bk)
             ELSE IF r.exc # NoExc THEN Raise(r.exc, add_record(bk, r.rec))
             ELSE Return(IF contains(bk, name) THEN "Phone added." ELSE "Contact added.",
                         add_record(bk, r.rec))

\* add_contact before decoration (lines 99-112).
add_contact_func(args, bk) ==
    IF Len(args) # 2 THEN Raise(UnpackError(2, Len(args)), bk)
    ELSE LET name == args[1]
             phone == args[2]
         IN  IF phone.type # "str" THEN Raise(NotAString, bk)
             ELSE IF ~PHONE_PATTERN_match(phone.v) THEN Raise(BadPhoneFormat, bk)
             ELSE IF name.type # "str" THEN Raise(Unhashable, bk)
             ELSE IF ~contains(bk, name.v)
                  THEN LET r == add_phone(Record(name.v), phone.v)
                       IN  IF r.exc # NoExc THEN Raise(r.exc, bk)
                           ELSE Return("Contact added.", add_record(bk, r.rec))
                  ELSE LET r == add_phone(getitem(bk, name.v), phone.v)
                       IN  IF r.exc # NoExc THEN Raise(r.exc, setrec(bk, name.v, r.rec))
                           ELSE Return("Phone added.", setrec(bk, name.v, r.rec))

add_contact(args, bk) == input_error(add_contact_func(args, bk))

\* change_contact before decoration (lines 115-125).
change_contact_func(args, bk) ==
    IF Len(args) # 3 THEN Raise(UnpackError(3, Len(args)), bk)
    ELSE LET name == args[1]
             old_phone == args[2]
             new_phone == args[3]
         IN  IF new_phone.type # "str" THEN Raise(NotAString, bk)
             ELSE IF ~PHONE_PATTERN_match(new_phone.v) THEN Raise(BadPhoneFormat, bk)
             ELSE IF name.type # "str" THEN Raise(Unhashable, bk)
             ELSE IF contains(bk, name.v)
                  THEN LET r == edit_phone(getitem(bk, name.v), old_phone.v, new_phone.v)
                       IN  IF r.exc # NoExc THEN Raise(r.exc, setrec(bk, name.v, r.rec))
                           ELSE Return("Contact updated.", setrec(bk, name.v, r.rec))
                  ELSE Return("Contact not found.", bk)

change_contact(args, bk) == input_error(change_contact_func(args, bk))

\* get_phone before decoration (lines 128-133).
get_phone_func(args, bk) ==
    IF Len(args) = 0 THEN Raise(IndexError("list index out of range"), bk)
    ELSE LET name == args[1]
         IN  IF name.type # "str" THEN Raise(Unhashable, bk)
             ELSE IF contains(bk, name.v)
                  THEN IF Len(getitem(bk, name.v).phones) = 0
                       THEN Raise(IndexError("list index out of range"), bk)
                       ELSE Return("Phone for " \o name.v \o ": "
                                   \o Field_str(getitem(bk, name.v).phones[1]), bk)
                  ELSE Return("Contact not found.", bk)

get_phone(args, bk) == input_error(get_phone_func(args, bk))

\* show_all_contacts before decoration (lines 136-140).
show_all_contacts_func(bk) ==
    IF Len(bk) = 0 THEN Return("No contacts available.", bk)
    ELSE Return(join("\n", Map(values(bk), Record_str)), bk)

show_all_contacts(bk) == input_error(show_all_contacts_func(bk))

\* add_birthday before decoration (lines 143-149).
add_birthday_func(args, bk) ==
    IF Len(args) # 2 THEN Raise(UnpackError(2, Len(args)), bk)
    ELSE LET name == args[1]
             birthday == args[2]
         IN  IF name.type # "str" THEN Raise(Unhashable, bk)
             ELSE IF contains(bk, name.v)
                  THEN IF birthday.type # "str"
                       THEN Raise(TypeError("strptime() argument 1 must be str, not list"), bk)
                       ELSE LET r == Record_add_birthday(getitem(bk, name.v), birthday.v)
                            IN  IF r.exc # NoExc
                                THEN Raise(r.exc, setrec(bk, name.v, r.rec))
                                ELSE Return("Birthday added.", setrec(bk, name.v, r.rec))
                  ELSE Return("Contact not found.", bk)

add_birthday(args, bk) == input_error(add_birthday_func(args, bk))

\* show_birthday before decoration (lines 152-158).
show_birthday_func(args, bk) ==
    IF Len(args) = 0 THEN Raise(IndexError("list index out of range"), bk)
    ELSE LET name == args[1]
         IN  IF name.type # "str" THEN Raise(Unhashable, bk)
             ELSE IF contains(bk, name.v)
                  THEN LET birthday == getitem(bk, name.v).birthday
                       IN  Return(IF birthday # <<>>
                                  THEN "Birthday for " \o name.v \o ": "
                                       \o Field_str(birthday[1])
                                  ELSE "Birthday not specified.", bk)
                  ELSE Return("Contact not found.", bk)

show_birthday(args, bk) == input_error(show_birthday_func(args, bk))

\* The line birthdays prints for one (name, birthday) pair.
UpcomingLine(pair) == "Upcoming birthday for " \o pair[1] \o " on " \o pair[2]

\* birthdays before decoration (lines 161-166); its first argument is unused.
birthdays_func(bk, tdy) ==
    LET r == get_upcoming_birthdays(bk, tdy)
    IN  IF r.exc # NoExc THEN Raise(r.exc, bk)
        ELSE IF Len(r.list) > 0
             THEN Return(join("\n", Map(r.list, UpcomingLine)), bk)
             ELSE Return("No upcoming birthdays.", bk)

birthdays(bk, tdy) == input_error(birthdays_func(bk, tdy))

----------------------------------------------------------------------------
(* Persistence.  pickle.dump writes the object graph of the AddressBook as *)
(* a stream; the stream is modelled as the sequence of str tokens          *)
(*   <number of items>, then per item:                                     *)
(*   key, name.value, <number of phones>, each phone's value,              *)
(*   "N" for birthday None or "B" followed by the Birthday's value.        *)
(* pickle.load rebuilds the objects from the stream without calling any    *)
(* __init__.                                                               *)

RECURSIVE dump_phones(_)
dump_phones(phones) ==
    IF Len(phones) = 0 THEN <<>>
    ELSE <<Head(phones).value>> \o dump_phones(Tail(phones))

dump_record(item) ==
    <<item.key, item.rec.name.value, str_int(Len(item.rec.phones))>>
    \o dump_phones(item.rec.phones)
    \o (IF item.rec.birthday = <<>> THEN <<"N">> ELSE <<"B", item.rec.birthday[1].value>>)

RECURSIVE dump_items(_)
dump_items(bk) ==
    IF Len(bk) = 0 THEN <<>> ELSE dump_record(Head(bk)) \o dump_items(Tail(bk))

\* pickle.dump(book, f)
pickle_dump(bk) == <<str_int(Len(bk))>> \o dump_items(bk)

\* A variant of pickle.dump that writes no birthday.
save_data_without_birthdays(bk) ==
    <<pickle_dump([i \in 1..Len(bk) |-> [bk[i] EXCEPT !.rec.birthday = <<>>]])>>

\* save_data: the file after the call.
save_data(bk) == <<pickle_dump(bk)>>

RECURSIVE load_phones(_, _, _)
\* The n phones read from position i of the stream.
load_phones(blob, i, n) ==
    IF n = 0 THEN <<>>
    ELSE <<Field(blob[i])>> \o load_phones(blob, i + 1, n - 1)

RECURSIVE load_items(_, _, _)
\* The n items read from position i of the stream.
load_items(blob, i, n) ==
    IF n = 0 THEN <<>>
    ELSE LET np   == int(blob[i + 2])
             j    == i + 3 + np
             bday == IF blob[j] = "B" THEN <<Field(blob[j + 1])>> ELSE <<>>
             nxt  == IF blob[j] = "B" THEN j + 2 ELSE j + 1
         IN  << [key |-> blob[i],
                 rec |-> [name     |-> Field(blob[i + 1]),
                          phones   |-> load_phones(blob, i + 3, np),
                          birthday |-> bday]] >>
             \o load_items(blob, nxt, n - 1)

\* pickle.load(f)
pickle_load(blob) == load_items(blob, 2, int(blob[1]))

\* load_data: the unpickled book, or a new AddressBook when open() raises
\* FileNotFoundError.
load_data(f) == IF f = <<>> THEN AddressBook ELSE pickle_load(f[1])

----------------------------------------------------------------------------
(* parse_input and one iteration of main's loop.                           *)

\* parse_input before decoration: (cmd, args), or the ValueError of
\* unpacking an empty split.
parse_input_func(user_input) ==
    LET words == split(user_input)
    IN  IF Len(words) = 0
        THEN [exc |-> ValueError("not enough values to unpack (expected at least 1, got 0)"),
              cmd |-> "", args |-> <<>>]
        ELSE [exc |-> NoExc, cmd |-> lower(Head(words)), args |-> Tail(words)]

\* parse_input as decorated: the tuple (cmd, args), or the message str.
parse_input(user_input) ==
    LET r == parse_input_func(user_input)
    IN  IF r.exc = NoExc
        THEN [type |-> "tuple", cmd |-> r.cmd, args |-> r.args, text |-> ""]
        ELSE [type |-> "str", cmd |-> "", args |-> <<>>, text |-> r.exc[2]]

\* `command, *args = parse_input(user_input)` in main: the first item of
\* the returned value, and the list of the remaining items.  Of the tuple
\* (cmd, args) the rest is the one-item list [args]; of a message str it is
\* the list of its characters after the first.
main_unpack(parsed) ==
    IF parsed.type = "tuple"
    THEN [command |-> parsed.cmd,
          args    |-> << PyList([i \in 1..Len(parsed.args) |-> PyStr(parsed.args[i])]) >>]
    ELSE [command |-> Char(parsed.text, 1),
          args    |-> [i \in 1..(Len(parsed.text) - 1) |-> PyStr(Char(parsed.text, i + 1))]]

Printed(msg, bk) == [next |-> "loop", out |-> msg, book |-> bk, exc |-> NoExc]
PrintedResult(r) == Printed(r.ret, r.book)

\* The body of main's `while True` for one line of input: what is printed,
\* the book afterwards, and whether the loop goes on ("loop"), is left by
\* break ("break") or is left by an exception nothing catches ("crash").
\* In `birthdays(_, book)` the name `_` is bound nowhere in the module: the
\* argument's evaluation raises NameError in main, outside input_error.
main_iteration(user_input, bk) ==
    LET u == main_unpack(parse_input(user_input))
        command == u.command
        args == u.args
    IN  IF command \in {"close", "exit"}
        THEN [next |-> "break", out |-> "Good bye!", book |-> bk, exc |-> NoExc]
        ELSE IF command = "hello" THEN Printed("How can I help you?", bk)
        ELSE IF command = "add" THEN PrintedResult(add_contact(args, bk))
        ELSE IF command = "change" THEN PrintedResult(change_contact(args, bk))
        ELSE IF command = "phone" THEN PrintedResult(get_phone(args, bk))
        ELSE IF command = "all" THEN PrintedResult(show_all_contacts(bk))
        ELSE IF command = "add-birthday" THEN PrintedResult(add_birthday(args, bk))
        ELSE IF command = "show-birthday" THEN PrintedResult(show_birthday(args, bk))
        ELSE IF command = "birthdays"
             THEN [next |-> "crash", out |-> "", book |-> bk,
                   exc |-> NameError("name '_' is not defined")]
        ELSE Printed("Invalid command.", bk)

----------------------------------------------------------------------------
(* Inputs.                                                                 *)

Names == {"Bob", "Ann"}

ValidPhones == {"1111111111", "2222222222"}

\* Too short, not all digits, and ten digits followed by a newline (which
\* PHONE_PATTERN accepts and Phone rejects).
BadPhones == {"12345", "12345abcde", "1111111111\n"}

PhoneInputs == ValidPhones \cup BadPhones

GoodBirthdays == {"12.06.1990"}

\* A date that does not exist, and a date in another format.
BadBirthdays == {"31.02.2024", "1990-06-12"}

BirthdayInputs == GoodBirthdays \cup BadBirthdays

\* Birthdays for the window query: mid-year, the first day of the year
\* (written without padding), the day after February, and 29 February.
WindowBirthdays == {"12.06.1990", "1.1.2000", "01.03.1970", "29.02.2000"}

StrArgs(seq) == [i \in 1..Len(seq) |-> PyStr(seq[i])]

AddArgs ==
    {StrArgs(<<n, p>>) : n \in Names, p \in PhoneInputs}
    \cup {StrArgs(<<"Bob">>), StrArgs(<<"Bob", "1111111111", "2222222222">>)}

ChangeArgs ==
    {StrArgs(<<n, o, p>>) : n \in Names, o \in ValidPhones \cup {"12345"}, p \in PhoneInputs}
    \cup {StrArgs(<<"Bob", "1111111111">>)}

BirthdayArgs ==
    {StrArgs(<<n, b>>) : n \in Names, b \in BirthdayInputs} \cup {StrArgs(<<"Bob">>)}

NameArgs == {StrArgs(<<n>>) : n \in Names} \cup {<<>>}

\* The values datetime.now().date() is drawn from: every day of YearSpan
\* years from BaseYear on.
Todays ==
    {dt \in [year : BaseYear..(BaseYear + YearSpan - 1), month : 1..12, day : 1..31] :
        ValidDate(dt.year, dt.month, dt.day)}

NoDate == Date(0, 0, 0)

\* The lines typed at main's prompt.
Lines ==
    {"hello", "add Bob 1111111111", "ADD  Ann 2222222222",
     "change Bob 1111111111 2222222222", "phone Bob", "all",
     "add-birthday Bob 12.06.1990", "show-birthday Bob", "birthdays",
     "close", "Exit", "", "list"}

\* Phone lists of one to MaxPhones valid phones.
RECURSIVE PhoneLists(_)
PhoneLists(n) ==
    IF n = 0 THEN {<<>>}
    ELSE PhoneLists(n - 1)
         \cup {Append(l, Field(p)) : l \in {x \in PhoneLists(n - 1) : Len(x) = n - 1},
                                      p \in ValidPhones}

StoredRecords(n) ==
    {[name |-> Name(n), phones |-> ps, birthday |-> bd] :
        ps \in PhoneLists(MaxPhones) \ {<<>>},
        bd \in {<<>>} \cup {<<Field(b)>> : b \in GoodBirthdays}}

StoredItems == {[key |-> r.name.value, rec |-> r] : r \in UNION {StoredRecords(n) : n \in Names}}

\* The books a saved file may hold when main starts: those the handlers
\* build (every record named by its key and holding at least one phone).
StoredBooks ==
    {<<>>}
    \cup {<<i>> : i \in StoredItems}
    \cup {b \in {<<i, j>> : i \in StoredItems, j \in StoredItems} : b[1].key # b[2].key}

----------------------------------------------------------------------------
(* The state machine.                                                      *)

\* No call is being observed: the caller has taken the last result.
Idle == [name |-> "idle", args |-> <<>>]

Init ==
    /\ book = AddressBook
    /\ out = ""
    /\ exc = NoExc
    /\ op = Idle
    /\ pre = AddressBook
    /\ upcoming = <<>>
    /\ today = NoDate
    /\ pc = "start"
    /\ file = <<>>
    /\ ended = "none"

\* The model follows phone lists up to MaxPhones long.
WithinBounds(bk) == \A i \in 1..Len(bk) : Len(bk[i].rec.phones) <= MaxPhones

\* The effect of a call made on the book outside main.
Called(opname, args, bk, ret, e) ==
    /\ op = Idle
    /\ WithinBounds(bk)
    /\ book' = bk
    /\ out' = ret
    /\ exc' = e
    /\ op' = [name |-> opname, args |-> args]
    /\ pre' = book
    /\ upcoming' = <<>>
    /\ today' = NoDate
    /\ UNCHANGED <<pc, file, ended>>

\* add_contact(args, book)
AddContact ==
    \E args \in AddArgs :
        LET r == add_contact(args, book)
        IN  Called("add_contact", args, r.book, r.ret, NoExc)

\* change_contact(args, book)
ChangeContact ==
    \E args \in ChangeArgs :
        LET r == change_contact(args, book)
        IN  Called("change_contact", args, r.book, r.ret, NoExc)

\* add_birthday(args, book)
AddBirthday ==
    \E args \in BirthdayArgs :
        LET r == add_birthday(args, book)
        IN  Called("add_birthday", args, r.book, r.ret, NoExc)

\* get_phone(args, book)
GetPhone ==
    \E args \in NameArgs :
        LET r == get_phone(args, book)
        IN  Called("get_phone", args, r.book, r.ret, NoExc)

\* book.find(name).add_phone(phone)
RecAddPhone ==
    \E n \in Names, p \in PhoneInputs :
        /\ contains(book, n)
        /\ LET r == add_phone(getitem(book, n), p)
           IN  Called("Record.add_phone", StrArgs(<<n, p>>), setrec(book, n, r.rec), "", r.exc)

\* book.find(name).remove_phone(phone)
RecRemovePhone ==
    \E n \in Names, p \in ValidPhones :
        /\ contains(book, n)
        /\ LET r == remove_phone(getitem(book, n), p)
           IN  Called("Record.remove_phone", StrArgs(<<n, p>>), setrec(book, n, r.rec), "", r.exc)

\* book.find(name).edit_phone(old_phone, new_phone)
RecEditPhone ==
    \E n \in Names, o \in ValidPhones, p \in PhoneInputs :
        /\ contains(book, n)
        /\ LET r == edit_phone(getitem(book, n), o, p)
           IN  Called("Record.edit_phone", StrArgs(<<n, o, p>>), setrec(book, n, r.rec), "", r.exc)

\* book.find(name).add_birthday(birthday), the birthday drawn from bs
RecAddBirthdayFrom(bs) ==
    \E n \in Names, b \in bs :
        /\ contains(book, n)
        /\ LET r == Record_add_birthday(getitem(book, n), b)
           IN  Called("Record.add_birthday", StrArgs(<<n, b>>), setrec(book, n, r.rec), "", r.exc)

RecAddBirthday == RecAddBirthdayFrom(BirthdayInputs)

\* book.delete(name)
Delete ==
    \E n \in Names :
        Called("delete", StrArgs(<<n>>), delete(book, n), "", NoExc)

\* book.add_record(Record(name))
AddRecord ==
    \E n \in Names :
        Called("add_record", StrArgs(<<n>>), add_record(book, Record(n)), "", NoExc)

\* book.get_upcoming_birthdays(), datetime.now().date() being tdy
UpcomingBirthdays ==
    \E tdy \in Todays :
        LET r == get_upcoming_birthdays(book, tdy)
        IN  /\ op = Idle
            /\ book' = book
            /\ out' = ""
            /\ exc' = r.exc
            /\ op' = [name |-> "get_upcoming_birthdays", args |-> <<>>]
            /\ pre' = book
            /\ upcoming' = r.list
            /\ today' = tdy
            /\ UNCHANGED <<pc, file, ended>>

\* The caller takes the result of the call: the variables that describe the
\* last call are cleared, the book stays.
Resume ==
    /\ op # Idle
    /\ op' = Idle
    /\ out' = ""
    /\ exc' = NoExc
    /\ pre' = AddressBook
    /\ upcoming' = <<>>
    /\ today' = NoDate
    /\ UNCHANGED <<book, pc, file, ended>>

\* The handlers and the Record and AddressBook methods, called on a book
\* that starts empty.
Next ==
    \/ AddContact
    \/ ChangeContact
    \/ AddBirthday
    \/ GetPhone
    \/ RecAddPhone
    \/ RecRemovePhone
    \/ RecEditPhone
    \/ RecAddBirthday
    \/ Delete
    \/ Resume

Spec == Init /\ [][Next]_vars

\* Only the command handlers that change the book, and get_phone.
NextHandlers ==
    \/ AddContact
    \/ ChangeContact
    \/ AddBirthday
    \/ GetPhone
    \/ Resume

SpecHandlers == Init /\ [][NextHandlers]_vars

RecAddWindowBirthday == RecAddBirthdayFrom(WindowBirthdays)

\* Books of records with birthdays, and the window query on them.
NextBirthdays ==
    \/ AddRecord
    \/ RecAddWindowBirthday
    \/ UpcomingBirthdays
    \/ Resume

SpecBirthdays == Init /\ [][NextBirthdays]_vars

(* main.  A run starts by loading the file; each line read is one step;   *)
(* after the run ended the program may be started again.                   *)

InitMain ==
    /\ book = AddressBook
    /\ out = ""
    /\ exc = NoExc
    /\ op = Idle
    /\ pre = AddressBook
    /\ upcoming = <<>>
    /\ today = NoDate
    /\ pc = "start"
    /\ file \in {<<>>} \cup {<<pickle_dump(b)>> : b \in StoredBooks}
    /\ ended = "none"

\* main up to its loop: book = load_data(), the welcome line.  `pre` keeps
\* the book the previous run held when it ended.
MainStart ==
    /\ op = Idle
    /\ pc = "start"
    /\ book' = load_data(file)
    /\ out' = "Welcome to the assistant bot!"
    /\ exc' = NoExc
    /\ op' = [name |-> "load_data", args |-> <<>>]
    /\ pre' = book
    /\ pc' = "loop"
    /\ UNCHANGED <<upcoming, today, file, ended>>

\* One iteration of main's loop on the line user_input.  After break,
\* save_data(book) runs and main returns; an uncaught exception ends the
\* process without it.
MainStep ==
    /\ op = Idle
    /\ pc = "loop"
    /\ \E user_input \in Lines :
        LET r == main_iteration(user_input, book)
        IN  /\ book' = r.book
            /\ out' = r.out
            /\ exc' = r.exc
            /\ op' = [name |-> "main", args |-> StrArgs(<<user_input>>)]
            /\ pre' = book
            /\ pc' = IF r.next = "loop" THEN "loop" ELSE "start"
            /\ file' = IF r.next = "break" THEN save_data(r.book) ELSE file
            /\ ended' = IF r.next = "break" THEN "exit"
                        ELSE IF r.next = "crash" THEN "crash" ELSE ended
            /\ UNCHANGED <<upcoming, today>>

NextMain ==
    \/ MainStart
    \/ MainStep
    \/ Resume

SpecMain == InitMain /\ [][NextMain]_vars

----------------------------------------------------------------------------
(* The claims.                                                             *)

\* The str values of a record's phones, in order.
PhoneValues(rec) == [i \in 1..Len(rec.phones) |-> rec.phones[i].value]

\* A valid phone number: exactly ten decimal digits.
TenDigits(p) == Len(p) = 10 /\ \A i \in 1..10 : Char(p, i) \in DigitChars

\* The record holds a phone whose str value is v.
Holds(rec, v) == \E i \in 1..Len(rec.phones) : rec.phones[i].value = v

\* The first position of the str value v in a record's phone list.
FirstAt(rec, v) ==
    CHOOSE i \in 1..Len(rec.phones) :
        /\ rec.phones[i].value = v
        /\ \A j \in 1..(i - 1) : rec.phones[j].value # v

\* The day after dt.
NextDay(dt) ==
    IF dt.day < DaysInMonth(dt.year, dt.month) THEN Date(dt.year, dt.month, dt.day + 1)
    ELSE IF dt.month < 12 THEN Date(dt.year, dt.month + 1, 1)
    ELSE Date(dt.year + 1, 1, 1)

RECURSIVE AddDays(_, _)
AddDays(dt, k) == IF k = 0 THEN dt ELSE AddDays(NextDay(dt), k - 1)

\* The closed interval [tdy, tdy + 7 days].
Window(tdy) == {AddDays(tdy, k) : k \in 0..7}

\* The next occurrence of a record's birthday: its (day, month) in tdy's
\* year, or in the following year when that date is strictly before tdy.
NextOccurrence(rec, tdy) ==
    LET b == strptime(rec.birthday[1].value).date
        before == b.month < tdy.month \/ (b.month = tdy.month /\ b.day < tdy.day)
    IN  Date(IF before THEN tdy.year + 1 ELSE tdy.year, b.month, b.day)

IsLeapDay(rec) ==
    /\ rec.birthday # <<>>
    /\ strptime(rec.birthday[1].value).date.month = 2
    /\ strptime(rec.birthday[1].value).date.day = 29

NoLeapDay(bk) == \A i \in 1..Len(bk) : ~IsLeapDay(bk[i].rec)

\* The records the window query is to report, in the book's order.
Due(bk, tdy) ==
    LET IsDue(rec) == rec.birthday # <<>> /\ NextOccurrence(rec, tdy) \in Window(tdy)
    IN  SelectSeq(values(bk), IsDue)

\* C1: for any book without a 29 February birthday and any today,
\* get_upcoming_birthdays returns, in the book's order, one (name,
\* occurrence date) pair for exactly the records that have a birthday whose
\* next occurrence lies in [today, today + 7 days]; records without a
\* birthday and records whose next occurrence is further away are left out.
C1_UpcomingWindow ==
    (op.name = "get_upcoming_birthdays" /\ NoLeapDay(book)) =>
        /\ exc = NoExc
        /\ Len(upcoming) = Len(Due(book, today))
        /\ \A i \in 1..Len(upcoming) :
            /\ upcoming[i][1] = Due(book, today)[i].name.value
            /\ strptime(upcoming[i][2]).date = NextOccurrence(Due(book, today)[i], today)

\* C1's case: late in December, of two records with birthdays the one born
\* on 1 January is reported with next year's date and the other is not.
C1_Witness ==
    /\ op.name = "get_upcoming_birthdays"
    /\ NoLeapDay(book)
    /\ Len(book) = 2
    /\ \A i \in 1..2 : book[i].rec.birthday # <<>>
    /\ today.month = 12
    /\ today.day = 25
    /\ Len(upcoming) = 1
    /\ upcoming[1][2] = strftime(Date(today.year + 1, 1, 1))

\* No two phones of a record have the same str value.
NoDuplicatePhones(bk) ==
    \A r \in 1..Len(bk) : \A i, j \in 1..Len(bk[r].rec.phones) :
        i # j => bk[r].rec.phones[i].value # bk[r].rec.phones[j].value

\* C2: add_phone with a valid number the record already holds stores
\* nothing, and no record ever holds two phones with the same str value.
C2_AddPhoneIdempotent ==
    /\ NoDuplicatePhones(book)
    /\ (/\ op.name = "Record.add_phone"
        /\ TenDigits(op.args[2].v)
        /\ Holds(getitem(pre, op.args[1].v), op.args[2].v))
       => book = pre

\* C3: edit_phone(old, new) on a record that holds a phone with str value
\* old, new being a valid number, puts new at that phone's position and
\* leaves everything else as it was; so does change_contact([name, old,
\* new], book) for a name in the book.
C3_EditPhoneReplaces ==
    (/\ op.name \in {"Record.edit_phone", "change_contact"}
     /\ Len(op.args) = 3
     /\ contains(pre, op.args[1].v)
     /\ Holds(getitem(pre, op.args[1].v), op.args[2].v)
     /\ TenDigits(op.args[3].v))
    => book = setrec(pre, op.args[1].v,
                     [getitem(pre, op.args[1].v) EXCEPT
                        !.phones[FirstAt(getitem(pre, op.args[1].v), op.args[2].v)] =
                            Field(op.args[3].v)])

\* C4: add_contact([name, phone], book) with a valid phone: when name is
\* absent the book gains, at its end, one record named name whose phone
\* list is [phone]; when name is present, phone is appended to that
\* record's phone list and nothing else changes.
C4_AddContactUpsert ==
    (/\ op.name = "add_contact"
     /\ Len(op.args) = 2
     /\ TenDigits(op.args[2].v))
    => IF ~contains(pre, op.args[1].v)
       THEN book = Append(pre, [key |-> op.args[1].v,
                                rec |-> [name |-> Field(op.args[1].v),
                                         phones |-> <<Field(op.args[2].v)>>,
                                         birthday |-> <<>>]])
       ELSE book = setrec(pre, op.args[1].v,
                          [getitem(pre, op.args[1].v) EXCEPT
                             !.phones = Append(@, Field(op.args[2].v))])

\* C4's scenario: add("Bob", "1111111111") then add("Bob", "2222222222")
\* on a book without Bob leaves one record Bob with the two phones in order.
C4_Witness ==
    /\ op.name = "add_contact"
    /\ op.args = StrArgs(<<"Bob", "2222222222">>)
    /\ Len(book) = 1
    /\ book[1].key = "Bob"
    /\ PhoneValues(book[1].rec) = <<"1111111111", "2222222222">>
    /\ PhoneValues(pre[1].rec) = <<"1111111111">>

\* The last call was given a malformed phone number or birthday to store.
GivenMalformed ==
    \/ op.name = "add_contact" /\ Len(op.args) = 2 /\ op.args[2].v \in BadPhones
    \/ op.name = "change_contact" /\ Len(op.args) = 3 /\ op.args[3].v \in BadPhones
    \/ op.name = "add_birthday" /\ Len(op.args) = 2 /\ op.args[2].v \in BadBirthdays
    \/ op.name = "Record.add_phone" /\ op.args[2].v \in BadPhones
    \/ op.name = "Record.edit_phone" /\ op.args[3].v \in BadPhones
    \/ op.name = "Record.add_birthday" /\ op.args[2].v \in BadBirthdays

ValidationMessages ==
    {"Phone number must contain 10 digits.",
     "Invalid phone number format. Please enter a 10-digit number.",
     "Invalid date format. Use DD.MM.YYYY"}

\* The last call ended with a validation error: a handler returned its
\* message, or a Record method raised it.
EndedWithValidationError ==
    \/ out \in ValidationMessages
    \/ exc # NoExc /\ exc[1] = "ValueError" /\ exc[2] \in ValidationMessages

TenDigitsAndNewline(p) ==
    Len(p) = 11 /\ TenDigits(SubSeq(p, 1, 10)) /\ Char(p, 11) = "\n"

\* The calls that reach the validation of the malformed value: all but
\* add_birthday for a name that is not in the book (which answers
\* "Contact not found."), Record.edit_phone (which returns silently when
\* it does not find the old phone) and change_contact with a new phone
\* that its pattern accepts (which then goes the way of edit_phone).
ReachesValidation ==
    \/ op.name \in {"add_contact", "Record.add_phone", "Record.add_birthday"}
    \/ op.name = "add_birthday" /\ contains(pre, op.args[1].v)
    \/ op.name = "change_contact" /\ ~TenDigitsAndNewline(op.args[3].v)

CommandOf(line) == IF Len(split(line)) = 0 THEN "" ELSE lower(split(line)[1])

\* C6: every line whose command is not close or exit makes the loop print
\* a message and go on to read the next command.
C6_NoCommandIsFatal ==
    (op.name = "main" /\ CommandOf(op.args[1].v) \notin {"close", "exit"})
    => (pc = "loop" /\ exc = NoExc)

\* C7: after main processed the line `add N P`, P a valid number and N not
\* in the book, find(N) returns a record named N whose phones contain P.
C7_AddLineStoresContact ==
    (/\ op.name = "main"
     /\ Len(split(op.args[1].v)) = 3
     /\ CommandOf(op.args[1].v) = "add"
     /\ TenDigits(split(op.args[1].v)[3])
     /\ ~contains(pre, split(op.args[1].v)[2]))
    => /\ find(book, split(op.args[1].v)[2]) # <<>>
       /\ find(book, split(op.args[1].v)[2])[1].name.value = split(op.args[1].v)[2]
       /\ Holds(find(book, split(op.args[1].v)[2])[1], split(op.args[1].v)[3])

\* C8: the book load_data restores at the start of a run equals the book
\* the previous run held when it ended by close or exit (same names, same
\* phone lists in the same order, same birthdays); without a saved file
\* the run starts with an empty book.
C8_BookSurvivesRuns ==
    op.name = "load_data" =>
        /\ ended = "exit" => book = pre
        /\ file = <<>> => book = AddressBook

\* C8's case: a run starts after a run that ended by close or exit with a
\* book of two records, one with two different phones and a birthday.
C8_Witness ==
    /\ op.name = "load_data"
    /\ ended = "exit"
    /\ Len(book) = 2
    /\ \E i \in 1..2 :
        /\ Len(book[i].rec.phones) = 2
        /\ book[i].rec.phones[1] # book[i].rec.phones[2]
        /\ book[i].rec.birthday # <<>>

\* C9: edit_phone(old, new) on a record that holds no phone with str value
\* old raises nothing and leaves the record (and the book) unchanged.
C9_EditAbsentIsNoOp ==
    (op.name = "Record.edit_phone" /\ ~Holds(getitem(pre, op.args[1].v), op.args[2].v))
    => (exc = NoExc /\ book = pre)

\* C9's case: the record has phones and a birthday, old is not among the
\* phones, new is a valid number.
C9_Witness ==
    /\ op.name = "Record.edit_phone"
    /\ ~Holds(getitem(pre, op.args[1].v), op.args[2].v)
    /\ TenDigits(op.args[3].v)
    /\ Len(getitem(pre, op.args[1].v).phones) > 0
    /\ getitem(pre, op.args[1].v).birthday # <<>>
    /\ exc = NoExc
    /\ book = pre

\* C10: in a book built from empty by add_contact, change_contact and
\* add_birthday every record has a phone, and get_phone([name], book) for a
\* name in the book returns that record's first phone.
C10_PhoneListsNonEmpty ==
    /\ \A i \in 1..Len(book) : Len(book[i].rec.phones) > 0
    /\ (op.name = "get_phone" /\ Len(op.args) = 1 /\ contains(pre, op.args[1].v))
       => /\ out # "Error: list index out of range"
          /\ out = "Phone for " \o op.args[1].v \o ": "
                   \o PhoneValues(getitem(pre, op.args[1].v))[1]

\* C10's case: get_phone for a record that was given two phones.
C10_Witness ==
    /\ op.name = "get_phone"
    /\ op.args = StrArgs(<<"Bob">>)
    /\ contains(book, "Bob")
    /\ PhoneValues(getitem(book, "Bob")) = <<"2222222222", "1111111111">>
    /\ out = "Phone for Bob: 2222222222"

=============================================================================
